---- MODULE Spec2Model ----
(***************************************************************************)
(* A model of parakeet-cli (src/src/main.rs): the daemon supervisor        *)
(* (daemon start / stop / status over a PID file and a socket file), the   *)
(* client dispatcher (run_transcribe: daemon fast path, subprocess         *)
(* fallback, the worker's two pipes and their reader tasks), daemon logs   *)
(* and the vocabulary merge of prepare_vocab_file.                         *)
(*                                                                         *)
(* Files are modelled by their content: the PID file holds a sequence of   *)
(* characters that read_pid trims and parses; the socket file holds the    *)
(* identity of the backend that bound it.  Processes are identified by     *)
(* their pid; pids are never reused within a behaviour.  Failures of the   *)
(* file system itself (unwritable directories, a PID or vocabulary file    *)
(* that exists and cannot be read as UTF-8) and of launching /bin/kill     *)
(* are outside the model; an unreadable log file is modelled.              *)
(***************************************************************************)
EXTENDS Integers, FiniteSets, Sequences, TLC

(* ------------------------------ bounds -------------------------------- *)

\* Number of daemon processes that may be spawned in one behaviour.
MaxSpawn == 2
\* Number of supervisor commands that may be invoked in one behaviour.
MaxOps == 3
\* The pid the first spawned daemon gets (later ones get the following pids).
FirstPid == 9
\* A pid left in the PID file by an earlier boot; no process has it.
StalePid == 7

\* for _ in 0..240 (daemon_start)
PollLimit == 240

Pids == FirstPid .. (FirstPid + MaxSpawn - 1)

(* ------------------------ PID file contents --------------------------- *)

\* A file of the file system: absent, or present with its content.
NoFile == [exists |-> FALSE, text |-> <<>>]
File(t) == [exists |-> TRUE, text |-> t]
\* The socket file: absent, or bound by the backend of daemon `owner`.
NoSocket == [exists |-> FALSE, owner |-> 0]
Socket(d) == [exists |-> TRUE, owner |-> d]
None == -1

DigitChars == <<"0", "1", "2", "3", "4", "5", "6", "7", "8", "9">>
Whitespace == {" ", "\n"}

IsDigit(ch) == \E i \in 1..10 : DigitChars[i] = ch
DigitVal(ch) == (CHOOSE i \in 1..10 : DigitChars[i] = ch) - 1

\* u32::to_string: the decimal digits, no sign, no padding.
RECURSIVE PidToString(_)
PidToString(n) ==
    IF n < 10 THEN <<DigitChars[n + 1]>>
    ELSE PidToString(n \div 10) \o <<DigitChars[(n % 10) + 1]>>

RECURSIVE TrimStart(_)
TrimStart(s) ==
    IF s # <<>> /\ Head(s) \in Whitespace THEN TrimStart(Tail(s)) ELSE s

RECURSIVE TrimEnd(_)
TrimEnd(s) ==
    IF s # <<>> /\ s[Len(s)] \in Whitespace
    THEN TrimEnd(SubSeq(s, 1, Len(s) - 1)) ELSE s

\* str::trim
Trim(s) == TrimEnd(TrimStart(s))

RECURSIVE DigitsValue(_)
DigitsValue(s) ==
    IF s = <<>> THEN 0
    ELSE 10 * DigitsValue(SubSeq(s, 1, Len(s) - 1)) + DigitVal(s[Len(s)])

RECURSIVE StripZeros(_)
StripZeros(s) ==
    IF Len(s) > 1 /\ Head(s) = "0" THEN StripZeros(Tail(s)) ELSE s

\* The digits of u32::MAX, 4294967295, which is past the checker's integers.
U32MaxDigits == <<"4", "2", "9", "4", "9", "6", "7", "2", "9", "5">>

\* Whether the digit string a is greater than b, both of the same length.
RECURSIVE DigitsGreater(_, _)
DigitsGreater(a, b) ==
    IF a = <<>> THEN FALSE
    ELSE IF DigitVal(Head(a)) # DigitVal(Head(b))
         THEN DigitVal(Head(a)) > DigitVal(Head(b))
         ELSE DigitsGreater(Tail(a), Tail(b))

\* Whether a string of digits is more than u32::MAX.
OverflowsU32(digits) ==
    LET sig == StripZeros(digits)
    IN  \/ Len(sig) > Len(U32MaxDigits)
        \/ Len(sig) = Len(U32MaxDigits) /\ DigitsGreater(sig, U32MaxDigits)

\* str::parse::<u32>().ok(): an optional '+', then one or more digits, no
\* overflow; anything else is None.
ParseU32(s) ==
    LET body == IF s # <<>> /\ Head(s) = "+" THEN Tail(s) ELSE s
    IN  IF body = <<>> \/ \E i \in 1..Len(body) : ~IsDigit(body[i]) THEN None
        ELSE IF OverflowsU32(body) THEN None
        ELSE DigitsValue(StripZeros(body))

VARIABLES
    callers,     \* the command slots in use (fixed by the initial state)
    pidfile,     \* NoFile, or the PID file with its characters
    sockfile,    \* NoSocket, or the socket file with the daemon that bound it
    serve,       \* pid -> "none" | "alive" | "dead": the `daemon serve` process
    backend,     \* pid -> "none" | "init" | "listening" | "dead": its child
    nextPid,     \* the pid the next spawn gets
    opsLeft,     \* supervisor commands still to be invoked
    op,          \* slot -> "none" | "start" | "stop" | "status"
    pc,          \* slot -> position in the command
    polls,       \* slot -> polls done by daemon_start's loop
    child,       \* slot -> the pid daemon_start spawned (None before)
    result,      \* slot -> what the command printed / returned
    lastEvent    \* history: the last of start-ok / stop / daemon death

supVars == <<callers, pidfile, sockfile, serve, backend, nextPid, opsLeft,
             op, pc, polls, child, result, lastEvent>>

VARIABLES
    tpc,         \* run_transcribe: position in the request
    topt,        \* the request's options: --no-daemon, and whether it validates
    tconn,       \* the daemon the client's socket is connected to (None: none)
    terr,        \* the error try_daemon_request returned ("none": none)
    tresult,     \* what run_transcribe returned
    tsource,     \* the path whose response was emitted
    emitted,     \* responses printed to stdout
    dreq,        \* the request line on the daemon connection
    dresp,       \* the response line on the daemon connection
    daemonExec,  \* transcriptions the daemon performed for the request
    subExec,     \* worker subprocesses launched for the request
    wstate,      \* the worker subprocess: "none" | "running" | exit status
    wstdout      \* the lines the worker printed on stdout, by kind

cliVars == <<tpc, topt, tconn, terr, tresult, tsource, emitted, dreq, dresp,
             daemonExec, subExec, wstate, wstdout>>

VARIABLES
    wplan,       \* what the worker will do: its writes, and its exit status
    wpos,        \* the number of writes the worker has completed
    pipeOut,     \* the lines in the stdout pipe, written and not yet read
    pipeErr,     \* the lines in the stderr pipe
    outTask,     \* stdout_task: "none" | "reading" | "done"
    errTask,     \* stderr_task: "none" | "reading" | "done"
    wstderr      \* the lines stderr_task has collected

pipeVars == <<wplan, wpos, pipeOut, pipeErr, outTask, errTask, wstderr>>

VARIABLES
    logfile,     \* the daemon's log file: whether it can be read, and its text
    logLines,    \* daemon logs: the --lines argument (None: not invoked)
    logOut,      \* daemon logs: the lines printed, one per println!
    logResult    \* daemon logs: "none" | "ok" | "err"

logVars == <<logfile, logLines, logOut, logResult>>

VARIABLES
    vocabLib,    \* terms/vocab.txt under the home directory: NoFile or File
    vocabUser,   \* --vocab: whether it was given, and the file at that path
    vocabUseLib, \* whether the run used the library (not --no-library)
    vocabOut,    \* tmp/merged_vocab.txt: NoFile or File
    vocabPrev,   \* the merged text of the first run, once merged again
    vocabResult  \* prepare_vocab_file: "none" | "ok" | "no_vocab" | "err"

vocabVars ==
    <<vocabLib, vocabUser, vocabUseLib, vocabOut, vocabPrev, vocabResult>>

\* The state of the commands that touch neither the daemon nor a request.
toolVars == <<logVars, vocabVars>>

vars == <<supVars, cliVars, pipeVars, toolVars>>

(* --------------------------- supervisor ------------------------------- *)

\* The longest prefix of s made of digits.
RECURSIVE DigitPrefix(_)
DigitPrefix(s) ==
    IF s # <<>> /\ IsDigit(Head(s)) THEN <<Head(s)>> \o DigitPrefix(Tail(s))
    ELSE <<>>

\* A variant that parses as atoi does: the leading digits, the rest ignored.
ReadPid_DigitPrefix(file) ==
    IF ~file.exists THEN None
    ELSE LET d == DigitPrefix(Trim(file.text))
         IN  IF d = <<>> THEN None ELSE DigitsValue(d)

\* read_pid: None when the file is absent or does not parse.
ReadPid(file) ==
    IF ~file.exists THEN None ELSE ParseU32(Trim(file.text))

\* `kill -0 pid` / `kill pid` succeed exactly when the process exists.
ProcessExists(p) == p \in Pids /\ serve[p] = "alive"

\* A probe-less variant: any recorded pid counts as running.
IsPidfileRunning_NoProbe == ReadPid(pidfile) # None

\* is_pidfile_running
IsPidfileRunning ==
    LET pid == ReadPid(pidfile)
    IN  IF pid = None THEN FALSE ELSE ProcessExists(pid)

Idle(c) == pc[c] = "idle"

\* Callers that hold or will take a pid in daemon_start.
StartsBeforeSpawn ==
    {c \in callers : pc[c] \in {"start_probe", "start_rmsock", "start_spawn"}}

\* run_daemon: dispatch of one supervisor command.
Invoke(c, o) ==
    /\ c \in callers
    /\ Idle(c)
    /\ opsLeft > 0
    /\ o = "start" =>
          nextPid + Cardinality(StartsBeforeSpawn) < FirstPid + MaxSpawn
    /\ op' = [op EXCEPT ![c] = o]
    /\ pc' = [pc EXCEPT ![c] = CASE o = "start" -> "start_probe"
                                 [] o = "stop" -> "stop_signal"
                                 [] o = "status" -> "status_probe"]
    /\ opsLeft' = opsLeft - 1
    /\ UNCHANGED <<cliVars, pipeVars, toolVars>>
    /\ UNCHANGED <<callers, pidfile, sockfile, serve, backend, nextPid,
                   polls, child, result, lastEvent>>

\* A variant that reports "already running" and carries on instead of
\* returning.
StartProbe_NoReturn(c) ==
    /\ pc[c] = "start_probe"
    /\ IF IsPidfileRunning
       THEN /\ result' = [result EXCEPT ![c] = "already_running"]
            /\ pc' = [pc EXCEPT ![c] = "start_rmsock"]
            /\ lastEvent' = "start_ok"
       ELSE /\ pc' = [pc EXCEPT ![c] = "start_rmsock"]
            /\ UNCHANGED <<result, lastEvent>>
    /\ UNCHANGED <<cliVars, pipeVars, toolVars>>
    /\ UNCHANGED <<callers, pidfile, sockfile, serve, backend, nextPid,
                   opsLeft, op, polls, child>>

\* daemon_start, lines 238-241: the liveness probe and the early return.
StartProbe(c) ==
    /\ pc[c] = "start_probe"
    /\ IF IsPidfileRunning
       THEN /\ result' = [result EXCEPT ![c] = "already_running"]
            /\ pc' = [pc EXCEPT ![c] = "done"]
            /\ lastEvent' = "start_ok"
       ELSE /\ pc' = [pc EXCEPT ![c] = "start_rmsock"]
            /\ UNCHANGED <<result, lastEvent>>
    /\ UNCHANGED <<cliVars, pipeVars, toolVars>>
    /\ UNCHANGED <<callers, pidfile, sockfile, serve, backend, nextPid,
                   opsLeft, op, polls, child>>

\* daemon_start, lines 249-251: remove a socket file left behind.
StartRemoveSocket(c) ==
    /\ pc[c] = "start_rmsock"
    /\ sockfile' = NoSocket
    /\ pc' = [pc EXCEPT ![c] = "start_spawn"]
    /\ UNCHANGED <<cliVars, pipeVars, toolVars>>
    /\ UNCHANGED <<callers, pidfile, serve, backend, nextPid, opsLeft, op,
                   polls, child, result, lastEvent>>

\* daemon_start, lines 261-270: spawn `daemon serve`.
StartSpawn(c) ==
    /\ pc[c] = "start_spawn"
    /\ nextPid \in Pids
    /\ serve' = [serve EXCEPT ![nextPid] = "alive"]
    /\ child' = [child EXCEPT ![c] = nextPid]
    /\ nextPid' = nextPid + 1
    /\ pc' = [pc EXCEPT ![c] = "start_writepid"]
    /\ UNCHANGED <<cliVars, pipeVars, toolVars>>
    /\ UNCHANGED <<callers, pidfile, sockfile, backend, opsLeft, op, polls,
                   result, lastEvent>>

\* A variant that forgets to record the child's pid.
StartWritePid_Skip(c) ==
    /\ pc[c] = "start_writepid"
    /\ polls' = [polls EXCEPT ![c] = 0]
    /\ pc' = [pc EXCEPT ![c] = "start_poll"]
    /\ UNCHANGED <<cliVars, pipeVars, toolVars>>
    /\ UNCHANGED <<callers, pidfile, sockfile, serve, backend, nextPid,
                   opsLeft, op, child, result, lastEvent>>

\* daemon_start, lines 272-273: record the child's pid.
StartWritePid(c) ==
    /\ pc[c] = "start_writepid"
    /\ pidfile' = File(PidToString(child[c]))
    /\ polls' = [polls EXCEPT ![c] = 0]
    /\ pc' = [pc EXCEPT ![c] = "start_poll"]
    /\ UNCHANGED <<cliVars, pipeVars, toolVars>>
    /\ UNCHANGED <<callers, sockfile, serve, backend, nextPid, opsLeft, op,
                   child, result, lastEvent>>

\* A variant that waits for the socket file without counting the passes.
StartPoll_Unbounded(c) ==
    /\ pc[c] = "start_poll"
    /\ IF sockfile.exists
       THEN /\ result' = [result EXCEPT ![c] = "started"]
            /\ pc' = [pc EXCEPT ![c] = "done"]
            /\ lastEvent' = IF ProcessExists(child[c]) THEN "start_ok"
                                                       ELSE lastEvent
       ELSE UNCHANGED <<result, pc, lastEvent>>
    /\ UNCHANGED <<cliVars, pipeVars, toolVars>>
    /\ UNCHANGED <<callers, pidfile, sockfile, serve, backend, nextPid,
                   opsLeft, op, child, polls>>

\* A variant that removes the PID file when it gives up.
StartPoll_ForgetOnTimeout(c) ==
    /\ pc[c] = "start_poll"
    /\ IF sockfile.exists
       THEN /\ result' = [result EXCEPT ![c] = "started"]
            /\ pc' = [pc EXCEPT ![c] = "done"]
            /\ polls' = [polls EXCEPT ![c] = 0]
            /\ lastEvent' = IF ProcessExists(child[c]) THEN "start_ok"
                                                       ELSE lastEvent
            /\ UNCHANGED pidfile
       ELSE IF polls[c] + 1 >= PollLimit
            THEN /\ result' = [result EXCEPT ![c] = "start_timeout"]
                 /\ pc' = [pc EXCEPT ![c] = "done"]
                 /\ polls' = [polls EXCEPT ![c] = 0]
                 /\ lastEvent' = "other"
                 /\ pidfile' = NoFile
            ELSE /\ polls' = [polls EXCEPT ![c] = polls[c] + 1]
                 /\ UNCHANGED <<result, pc, lastEvent, pidfile>>
    /\ UNCHANGED <<cliVars, pipeVars, toolVars>>
    /\ UNCHANGED <<callers, sockfile, serve, backend, nextPid, opsLeft, op,
                   child>>

\* daemon_start, lines 275-285: one pass of the polling loop, and the bail
\* after the last pass.  The loop counter is gone once the loop is left.
StartPoll(c) ==
    /\ pc[c] = "start_poll"
    /\ IF sockfile.exists
       THEN /\ result' = [result EXCEPT ![c] = "started"]
            /\ pc' = [pc EXCEPT ![c] = "done"]
            /\ polls' = [polls EXCEPT ![c] = 0]
            /\ lastEvent' = IF ProcessExists(child[c]) THEN "start_ok"
                                                       ELSE lastEvent
       ELSE IF polls[c] + 1 >= PollLimit
            THEN /\ result' = [result EXCEPT ![c] = "start_timeout"]
                 /\ pc' = [pc EXCEPT ![c] = "done"]
                 /\ polls' = [polls EXCEPT ![c] = 0]
                 /\ lastEvent' = "other"
            ELSE /\ polls' = [polls EXCEPT ![c] = polls[c] + 1]
                 /\ UNCHANGED <<result, pc, lastEvent>>
    /\ UNCHANGED <<cliVars, pipeVars, toolVars>>
    /\ UNCHANGED <<callers, pidfile, sockfile, serve, backend, nextPid,
                   opsLeft, op, child>>

\* daemon_stop, lines 289-301: read the pid and signal it.
StopSignal(c) ==
    /\ pc[c] = "stop_signal"
    /\ LET pid == ReadPid(pidfile)
       IN  IF pid # None
           THEN IF ProcessExists(pid)
                THEN /\ serve' = [serve EXCEPT ![pid] = "dead"]
                     /\ result' = [result EXCEPT ![c] = "stopped"]
                     /\ pc' = [pc EXCEPT ![c] = "stop_cleanup"]
                     /\ lastEvent' = "killed"
                ELSE /\ result' = [result EXCEPT ![c] = "stop_failed"]
                     /\ pc' = [pc EXCEPT ![c] = "done"]
                     /\ lastEvent' = "stopped"
                     /\ UNCHANGED serve
           ELSE /\ result' = [result EXCEPT ![c] = "not_running"]
                /\ pc' = [pc EXCEPT ![c] = "stop_cleanup"]
                /\ UNCHANGED <<serve, lastEvent>>
    /\ UNCHANGED <<cliVars, pipeVars, toolVars>>
    /\ UNCHANGED <<callers, pidfile, sockfile, backend, nextPid, opsLeft, op,
                   polls, child>>

\* daemon_stop, lines 303-305: remove both files and return Ok.
StopCleanup(c) ==
    /\ pc[c] = "stop_cleanup"
    /\ pidfile' = NoFile
    /\ sockfile' = NoSocket
    /\ pc' = [pc EXCEPT ![c] = "done"]
    /\ lastEvent' = "stopped"
    /\ UNCHANGED <<cliVars, pipeVars, toolVars>>
    /\ UNCHANGED <<callers, serve, backend, nextPid, opsLeft, op, polls,
                   child, result>>

\* daemon_status
Status(c) ==
    /\ pc[c] = "status_probe"
    /\ result' = [result EXCEPT ![c] =
                     IF IsPidfileRunning THEN "running" ELSE "not_running"]
    /\ pc' = [pc EXCEPT ![c] = "done"]
    /\ UNCHANGED <<cliVars, pipeVars, toolVars>>
    /\ UNCHANGED <<callers, pidfile, sockfile, serve, backend, nextPid,
                   opsLeft, op, polls, child, lastEvent>>

\* The command's process exits; the slot is free for the next command.
Return(c) ==
    /\ pc[c] = "done"
    /\ pc' = [pc EXCEPT ![c] = "idle"]
    /\ op' = [op EXCEPT ![c] = "none"]
    /\ polls' = [polls EXCEPT ![c] = 0]
    /\ child' = [child EXCEPT ![c] = None]
    /\ result' = [result EXCEPT ![c] = "none"]
    /\ UNCHANGED <<cliVars, pipeVars, toolVars>>
    /\ UNCHANGED <<callers, pidfile, sockfile, serve, backend, nextPid,
                   opsLeft, lastEvent>>

(* ------------------------ the daemon processes ------------------------ *)

\* daemon_serve, lines 216-228: launch the backend and wait for it.
ServeLaunch(d) ==
    /\ serve[d] = "alive"
    /\ backend[d] = "none"
    /\ backend' = [backend EXCEPT ![d] = "init"]
    /\ UNCHANGED <<cliVars, pipeVars, toolVars>>
    /\ UNCHANGED <<callers, pidfile, sockfile, serve, nextPid, opsLeft, op,
                   pc, polls, child, result, lastEvent>>

\* daemon_serve, lines 228-234: the backend has exited, so serve returns.
ServeExit(d) ==
    /\ serve[d] = "alive"
    /\ backend[d] = "dead"
    /\ serve' = [serve EXCEPT ![d] = "dead"]
    /\ lastEvent' = "killed"
    /\ UNCHANGED <<cliVars, pipeVars, toolVars>>
    /\ UNCHANGED <<callers, pidfile, sockfile, backend, nextPid, opsLeft, op,
                   pc, polls, child, result>>

\* Whether a live backend other than d listens on the socket file.
SocketHeldByOther(d) ==
    /\ sockfile.exists
    /\ sockfile.owner # d
    /\ sockfile.owner \in Pids
    /\ backend[sockfile.owner] = "listening"

\* The backend binds the socket path, replacing a file nobody listens on
\* (spec 4.2).
BackendBind(d) ==
    /\ backend[d] = "init"
    /\ ~SocketHeldByOther(d)
    /\ backend' = [backend EXCEPT ![d] = "listening"]
    /\ sockfile' = Socket(d)
    /\ UNCHANGED <<cliVars, pipeVars, toolVars>>
    /\ UNCHANGED <<callers, pidfile, serve, nextPid, opsLeft, op, pc, polls,
                   child, result, lastEvent>>

\* The backend exits: a crash, a failed initialisation or a failed bind
\* (spec 4.2, fatal conditions).  Its socket file stays behind.
BackendExit(d) ==
    /\ backend[d] \in {"init", "listening"}
    /\ backend' = [backend EXCEPT ![d] = "dead"]
    /\ UNCHANGED <<cliVars, pipeVars, toolVars>>
    /\ UNCHANGED <<callers, pidfile, sockfile, serve, nextPid, opsLeft, op,
                   pc, polls, child, result, lastEvent>>

\* The `daemon serve` process is killed from outside.
ExternalKill(d) ==
    /\ serve[d] = "alive"
    /\ serve' = [serve EXCEPT ![d] = "dead"]
    /\ lastEvent' = "killed"
    /\ UNCHANGED <<cliVars, pipeVars, toolVars>>
    /\ UNCHANGED <<callers, pidfile, sockfile, backend, nextPid, opsLeft, op,
                   pc, polls, child, result>>

(* ------------------------- client dispatcher -------------------------- *)

\* Bound: the number of lines the worker prints on stdout.
MaxLines == 2

\* A stdout line by what the dispatcher can tell of it: "json" parses as a
\* BackendResponse, "brace" starts with '{' and does not parse, "text" does
\* not start with '{'.
LineKinds == {"json", "brace", "text"}
StdoutChoices == UNION {[1..n -> LineKinds] : n \in 0..MaxLines}

\* What the daemon may write back: a response, a line that does not decode
\* as a BackendResponse (garbage, or a structured error), or nothing.
ResponseKinds == {"valid", "malformed", "empty"}

\* UnixStream::connect succeeds when a live backend listens on the path.
DaemonListening ==
    /\ sockfile.exists
    /\ sockfile.owner \in Pids
    /\ backend[sockfile.owner] = "listening"

PeerAlive == tconn \in Pids /\ backend[tconn] = "listening"

supFrame == UNCHANGED <<supVars, pipeVars, toolVars>>

\* main / run_transcribe is entered with the parsed options.
TInvoke(nd, v) ==
    /\ tpc = "idle"
    /\ topt' = [noDaemon |-> nd, valid |-> v]
    /\ tpc' = "validate"
    /\ UNCHANGED <<tconn, terr, tresult, tsource, emitted, dreq, dresp,
                   daemonExec, subExec, wstate, wstdout>>
    /\ supFrame

\* run_transcribe, lines 359-395: the checks that bail before dispatch.
TValidate ==
    /\ tpc = "validate"
    /\ IF topt.valid
       THEN /\ tpc' = "dispatch"
            /\ UNCHANGED tresult
       ELSE /\ tpc' = "done"
            /\ tresult' = "err_validation"
    /\ UNCHANGED <<topt, tconn, terr, tsource, emitted, dreq, dresp,
                   daemonExec, subExec, wstate, wstdout>>
    /\ supFrame

\* A variant that tries the daemon whatever the options say.
TDispatch_AlwaysDaemon ==
    /\ tpc = "dispatch"
    /\ tpc' = "d_connect"
    /\ UNCHANGED <<topt, tconn, terr, tresult, tsource, emitted, dreq, dresp,
                   daemonExec, subExec, wstate, wstdout>>
    /\ supFrame

\* run_transcribe, line 397: the daemon is tried unless --no-daemon.
TDispatch ==
    /\ tpc = "dispatch"
    /\ tpc' = IF topt.noDaemon THEN "sub_spawn" ELSE "d_connect"
    /\ UNCHANGED <<topt, tconn, terr, tresult, tsource, emitted, dreq, dresp,
                   daemonExec, subExec, wstate, wstdout>>
    /\ supFrame

\* A variant that propagates the error of try_daemon_request (a `?`).
DaemonAttemptFailed_Surface(e) ==
    /\ terr' = e
    /\ tpc' = "done"
    /\ tresult' = "err_daemon"
    /\ UNCHANGED <<tsource, emitted>>

\* What run_transcribe does with an Err of try_daemon_request (lines
\* 397-402: the `if let Ok` does not match, control falls to the subprocess).
DaemonAttemptFailed(e) ==
    /\ terr' = e
    /\ tpc' = "sub_spawn"
    /\ UNCHANGED <<tresult, tsource, emitted>>

\* try_daemon_request, lines 481-484.
TryConnect ==
    /\ tpc = "d_connect"
    /\ IF DaemonListening
       THEN /\ tconn' = sockfile.owner
            /\ tpc' = "d_write"
            /\ UNCHANGED <<terr, tresult, tsource, emitted>>
       ELSE /\ DaemonAttemptFailed("unreachable")
            /\ UNCHANGED tconn
    /\ UNCHANGED <<topt, dreq, dresp, daemonExec, subExec, wstate, wstdout>>
    /\ supFrame

\* try_daemon_request, lines 485-486: the request line is written, or the
\* write fails (the peer is gone, or the 30 s write timeout passes).
TryWrite ==
    /\ tpc = "d_write"
    /\ \/ /\ PeerAlive
          /\ dreq' = "sent"
          /\ tpc' = "d_read"
          /\ UNCHANGED <<terr, tresult, tsource, emitted>>
       \/ /\ DaemonAttemptFailed("write_failed")
          /\ UNCHANGED dreq
    /\ UNCHANGED <<topt, tconn, dresp, daemonExec, subExec, wstate, wstdout>>
    /\ supFrame

\* try_daemon_request, lines 488-496, and run_transcribe, lines 400-401:
\* the response line is read and decoded, or the read fails (the 180 s read
\* timeout passes, or the peer closed without a line); a decoded response is
\* emitted and run_transcribe returns.
TryRead ==
    /\ tpc = "d_read"
    /\ \/ /\ dresp = "valid"
          /\ emitted' = emitted + 1
          /\ tresult' = "ok"
          /\ tsource' = "daemon"
          /\ tpc' = "done"
          /\ UNCHANGED terr
       \/ /\ dresp = "malformed"
          /\ DaemonAttemptFailed("malformed")
       \/ /\ dresp = "empty" \/ (dresp = "none" /\ ~PeerAlive)
          /\ DaemonAttemptFailed("empty")
       \/ /\ dresp = "none"
          /\ PeerAlive
          /\ DaemonAttemptFailed("timeout")
    /\ UNCHANGED <<topt, tconn, dreq, dresp, daemonExec, subExec, wstate,
                   wstdout>>
    /\ supFrame

\* The daemon server reads the request line of the connection (spec 4.2);
\* the line stays readable after the client has given up.
DaemonReadRequest ==
    /\ dreq = "sent"
    /\ PeerAlive
    /\ dreq' = "read"
    /\ UNCHANGED <<tpc, topt, tconn, terr, tresult, tsource, emitted, dresp,
                   daemonExec, subExec, wstate, wstdout>>
    /\ supFrame

\* The daemon server invokes the worker on the decoded request (spec 4.2).
DaemonProcess ==
    /\ dreq = "read"
    /\ PeerAlive
    /\ dreq' = "processed"
    /\ daemonExec' = daemonExec + 1
    /\ UNCHANGED <<tpc, topt, tconn, terr, tresult, tsource, emitted, dresp,
                   subExec, wstate, wstdout>>
    /\ supFrame

\* The daemon server writes one line back and closes (spec 4.2).
DaemonRespond(kind) ==
    /\ dreq = "processed"
    /\ PeerAlive
    /\ dreq' = "responded"
    /\ dresp' = kind
    /\ UNCHANGED <<tpc, topt, tconn, terr, tresult, tsource, emitted,
                   daemonExec, subExec, wstate, wstdout>>
    /\ supFrame

\* run_transcribe, lines 404-417: the worker subprocess is spawned.
SubSpawn ==
    /\ tpc = "sub_spawn"
    /\ \/ /\ wstate' = "running"
          /\ subExec' = subExec + 1
          /\ tpc' = "sub_wait"
          /\ UNCHANGED tresult
       \/ /\ tresult' = "err_spawn"
          /\ tpc' = "done"
          /\ UNCHANGED <<wstate, subExec>>
    /\ UNCHANGED <<topt, tconn, terr, tsource, emitted, dreq, dresp,
                   daemonExec, wstdout>>
    /\ supFrame

\* The worker exits, having printed its lines.
WorkerExit(status, out) ==
    /\ wstate = "running"
    /\ wstate' = status
    /\ wstdout' = out
    /\ UNCHANGED <<tpc, topt, tconn, terr, tresult, tsource, emitted, dreq,
                   dresp, daemonExec, subExec>>
    /\ supFrame

\* run_transcribe, lines 445-447: child.wait() and the two joins return
\* once the worker has exited; nothing bounds the wait.
SubWait ==
    /\ tpc = "sub_wait"
    /\ wstate \in {"exit_ok", "exit_fail"}
    /\ tpc' = "sub_decide"
    /\ UNCHANGED <<topt, tconn, terr, tresult, tsource, emitted, dreq, dresp,
                   daemonExec, subExec, wstate, wstdout>>
    /\ supFrame

\* A variant that takes the first line that starts with '{'.
FirstJsonLine(lines) ==
    LET idx == {i \in 1..Len(lines) : lines[i] \in {"json", "brace"}}
    IN  IF idx = {} THEN 0 ELSE CHOOSE i \in idx : \A j \in idx : i <= j

\* lines 460-465: the last line that starts with '{' (0: there is none).
LastJsonLine(lines) ==
    LET idx == {i \in 1..Len(lines) : lines[i] \in {"json", "brace"}}
    IN  IF idx = {} THEN 0 ELSE CHOOSE i \in idx : \A j \in idx : j <= i

\* A variant that prints the last JSON line before looking at the status.
SubDecide_EmitFirst ==
    /\ tpc = "sub_decide"
    /\ tpc' = "done"
    /\ LET k == LastJsonLine(wstdout)
       IN  /\ emitted' = IF k # 0 /\ wstdout[k] = "json"
                         THEN emitted + 1 ELSE emitted
           /\ IF wstate # "exit_ok"
              THEN tresult' = "err_worker" /\ UNCHANGED tsource
              ELSE IF k = 0
                   THEN tresult' = "err_nojson" /\ UNCHANGED tsource
                   ELSE IF wstdout[k] # "json"
                        THEN tresult' = "err_parse" /\ UNCHANGED tsource
                        ELSE tresult' = "ok" /\ tsource' = "subprocess"
    /\ UNCHANGED <<topt, tconn, terr, dreq, dresp, daemonExec, subExec,
                   wstate, wstdout>>
    /\ supFrame

\* run_transcribe, lines 449-471: the outcome, decided after the exit.
SubDecide ==
    /\ tpc = "sub_decide"
    /\ tpc' = "done"
    /\ LET k == LastJsonLine(wstdout)
       IN  IF wstate # "exit_ok"
           THEN /\ tresult' = "err_worker"
                /\ UNCHANGED <<tsource, emitted>>
           ELSE IF k = 0
                THEN /\ tresult' = "err_nojson"
                     /\ UNCHANGED <<tsource, emitted>>
                ELSE IF wstdout[k] # "json"
                     THEN /\ tresult' = "err_parse"
                          /\ UNCHANGED <<tsource, emitted>>
                     ELSE /\ tresult' = "ok"
                          /\ tsource' = "subprocess"
                          /\ emitted' = emitted + 1
    /\ UNCHANGED <<topt, tconn, terr, dreq, dresp, daemonExec, subExec,
                   wstate, wstdout>>
    /\ supFrame

(* ------------------------ the worker's pipes -------------------------- *)

\* Bounds: the lines a pipe holds before a write to it blocks, and the
\* number of lines the worker writes.
PipeCap == 1
MaxWrites == 3

\* A write of the worker: the stream, and the line by its kind.
Writes == ({"out"} \X LineKinds) \cup ({"err"} \X {"text"})
WritePlans == UNION {[1..n -> Writes] : n \in 0..MaxWrites}
ExitStatuses == {"exit_ok", "exit_fail"}

\* The lines of the plan written to one stream, in order.
RECURSIVE StreamLines(_, _)
StreamLines(ws, stream) ==
    IF ws = <<>> THEN <<>>
    ELSE (IF Head(ws)[1] = stream THEN <<Head(ws)[2]>> ELSE <<>>)
         \o StreamLines(Tail(ws), stream)

\* What the pipe steps leave alone.
pipeFrame ==
    /\ UNCHANGED <<topt, tconn, terr, tresult, tsource, emitted, dreq, dresp,
                   daemonExec, subExec>>
    /\ UNCHANGED <<supVars, toolVars>>

\* run_transcribe, lines 427-443: the two reader tasks are spawned.
SpawnReaders ==
    /\ tpc = "sub_wait"
    /\ outTask = "none"
    /\ outTask' = "reading"
    /\ errTask' = "reading"
    /\ UNCHANGED <<tpc, wstate, wstdout, wplan, wpos, pipeOut, pipeErr,
                   wstderr>>
    /\ pipeFrame

\* The worker writes its next line; the write blocks while the pipe is full.
WorkerWrite ==
    /\ wstate = "running"
    /\ wpos < Len(wplan.writes)
    /\ LET w == wplan.writes[wpos + 1]
       IN  IF w[1] = "out"
           THEN /\ Len(pipeOut) < PipeCap
                /\ pipeOut' = Append(pipeOut, w[2])
                /\ UNCHANGED pipeErr
           ELSE /\ Len(pipeErr) < PipeCap
                /\ pipeErr' = Append(pipeErr, w[2])
                /\ UNCHANGED pipeOut
    /\ wpos' = wpos + 1
    /\ UNCHANGED <<tpc, wstate, wstdout, wplan, outTask, errTask, wstderr>>
    /\ pipeFrame

\* The worker has written everything and exits, closing its ends.
WorkerFinish ==
    /\ wstate = "running"
    /\ wpos = Len(wplan.writes)
    /\ wstate' = wplan.status
    /\ UNCHANGED <<tpc, wstdout, wplan, wpos, pipeOut, pipeErr, outTask,
                   errTask, wstderr>>
    /\ pipeFrame

\* stdout_task, lines 427-434: one line is read, or end of file is seen.
StdoutTask ==
    /\ outTask = "reading"
    /\ IF pipeOut # <<>>
       THEN /\ wstdout' = Append(wstdout, Head(pipeOut))
            /\ pipeOut' = Tail(pipeOut)
            /\ UNCHANGED outTask
       ELSE /\ wstate \in ExitStatuses
            /\ outTask' = "done"
            /\ UNCHANGED <<wstdout, pipeOut>>
    /\ UNCHANGED <<tpc, wstate, wplan, wpos, pipeErr, errTask, wstderr>>
    /\ pipeFrame

\* A variant that reads stderr only once stdout has been read to its end.
StderrTask_AfterStdout ==
    /\ errTask = "reading"
    /\ outTask = "done"
    /\ IF pipeErr # <<>>
       THEN /\ wstderr' = Append(wstderr, Head(pipeErr))
            /\ pipeErr' = Tail(pipeErr)
            /\ UNCHANGED errTask
       ELSE /\ wstate \in ExitStatuses
            /\ errTask' = "done"
            /\ UNCHANGED <<wstderr, pipeErr>>
    /\ UNCHANGED <<tpc, wstate, wstdout, wplan, wpos, pipeOut, outTask>>
    /\ pipeFrame

\* stderr_task, lines 436-443: one line is read, or end of file is seen.
StderrTask ==
    /\ errTask = "reading"
    /\ IF pipeErr # <<>>
       THEN /\ wstderr' = Append(wstderr, Head(pipeErr))
            /\ pipeErr' = Tail(pipeErr)
            /\ UNCHANGED errTask
       ELSE /\ wstate \in ExitStatuses
            /\ errTask' = "done"
            /\ UNCHANGED <<wstderr, pipeErr>>
    /\ UNCHANGED <<tpc, wstate, wstdout, wplan, wpos, pipeOut, outTask>>
    /\ pipeFrame

\* run_transcribe, line 445: child.wait() returns once the worker exited.
WaitChild ==
    /\ tpc = "sub_wait"
    /\ outTask # "none"
    /\ wstate \in ExitStatuses
    /\ tpc' = "sub_join_out"
    /\ UNCHANGED <<wstate, wstdout>>
    /\ UNCHANGED pipeVars
    /\ pipeFrame

\* run_transcribe, line 446: stdout_task is joined.
JoinStdout ==
    /\ tpc = "sub_join_out"
    /\ outTask = "done"
    /\ tpc' = "sub_join_err"
    /\ UNCHANGED <<wstate, wstdout>>
    /\ UNCHANGED pipeVars
    /\ pipeFrame

\* run_transcribe, line 447: stderr_task is joined.
JoinStderr ==
    /\ tpc = "sub_join_err"
    /\ errTask = "done"
    /\ tpc' = "sub_decide"
    /\ UNCHANGED <<wstate, wstdout>>
    /\ UNCHANGED pipeVars
    /\ pipeFrame

(* ---------------------------- daemon logs ---------------------------- *)

\* Bounds: the characters of the log file, and the largest --lines argument.
MaxLogChars == 4
MaxTail == 3

LogChars == {"a", "b", "\n", "\r"}
LogTexts == UNION {[1..n -> LogChars] : n \in 0..MaxLogChars}

\* A log file that cannot be read (absent, or not UTF-8), or one with text.
NoLog == [readable |-> FALSE, text |-> <<>>]
Log(t) == [readable |-> TRUE, text |-> t]

\* str::lines strips the "\n" that ends a line and a "\r" just before it.
StripCR(l) ==
    IF l # <<>> /\ l[Len(l)] = "\r" THEN SubSeq(l, 1, Len(l) - 1) ELSE l

\* str::lines, with cur the characters of the line being read: a line ends
\* at "\n"; the last line needs no "\n" and, without one, keeps a final
\* "\r"; text that ends in "\n" has no empty last line.
RECURSIVE LinesFrom(_, _)
LinesFrom(rest, cur) ==
    IF rest = <<>> THEN (IF cur = <<>> THEN <<>> ELSE <<cur>>)
    ELSE IF Head(rest) = "\n"
         THEN <<StripCR(cur)>> \o LinesFrom(Tail(rest), <<>>)
         ELSE LinesFrom(Tail(rest), Append(cur, Head(rest)))

StrLines(text) == LinesFrom(text, <<>>)

\* usize::saturating_sub
SaturatingSub(a, b) == IF a >= b THEN a - b ELSE 0

\* A variant that prints from the top of the file.
DaemonLogsOutput_Head(text, n) ==
    LET all == StrLines(text)
        stop == IF n <= Len(all) THEN n ELSE Len(all)
    IN  SubSeq(all, 1, stop)

\* daemon_logs, lines 323-327: the lines printed for a readable log.
DaemonLogsOutput(text, n) ==
    LET all == StrLines(text)
        start == SaturatingSub(Len(all), n)
    IN  SubSeq(all, start + 1, Len(all))

\* daemon_logs
DaemonLogs(n) ==
    /\ logResult = "none"
    /\ logLines' = n
    /\ IF logfile.readable
       THEN /\ logOut' = DaemonLogsOutput(logfile.text, n)
            /\ logResult' = "ok"
       ELSE /\ logOut' = <<>>
            /\ logResult' = "err"
    /\ UNCHANGED logfile
    /\ UNCHANGED <<supVars, cliVars, pipeVars, vocabVars>>

(* -------------------------- vocabulary merge ------------------------- *)

\* Bound: the lines of a vocabulary file.
MaxVocabLines == 2

\* The lines vocabulary files are made of: terms with and without spaces
\* around them, in both cases, a comment, an empty line, a '#' inside.
VocabLineChoices ==
    {<<"a">>, <<" ", "a", " ">>, <<"A">>, <<"#", "a">>, <<>>, <<"a", "#">>}
VocabLineSeqs == UNION {[1..n -> VocabLineChoices] : n \in 0..MaxVocabLines}

\* The text of a file with the given lines, "\n" between them.
RECURSIVE JoinLines(_)
JoinLines(ls) ==
    IF ls = <<>> THEN <<>>
    ELSE IF Len(ls) = 1 THEN ls[1]
    ELSE ls[1] \o <<"\n">> \o JoinLines(Tail(ls))

VocabFiles == {NoFile} \cup {File(JoinLines(ls)) : ls \in VocabLineSeqs}

\* --vocab not given, or given with the file at the path (NoFile: missing).
NoUserVocab == [given |-> FALSE, file |-> NoFile]
UserVocab(f) == [given |-> TRUE, file |-> f]

\* The bytes of the characters used, for the order of String.
CharOrder == <<" ", "#", "A", "a">>
CharRank(ch) == CHOOSE i \in 1..Len(CharOrder) : CharOrder[i] = ch

\* String's Ord: byte-wise lexicographic, a proper prefix first.
RECURSIVE StrLess(_, _)
StrLess(x, y) ==
    IF y = <<>> THEN FALSE
    ELSE IF x = <<>> THEN TRUE
    ELSE IF Head(x) # Head(y) THEN CharRank(Head(x)) < CharRank(Head(y))
    ELSE StrLess(Tail(x), Tail(y))

\* BTreeSet::insert on the set kept as its ascending sequence.
RECURSIVE BTreeInsert(_, _)
BTreeInsert(tree, term) ==
    IF tree = <<>> THEN <<term>>
    ELSE IF Head(tree) = term THEN tree
    ELSE IF StrLess(term, Head(tree)) THEN <<term>> \o tree
    ELSE <<Head(tree)>> \o BTreeInsert(Tail(tree), term)

\* A variant that takes the line as it is.
VocabTerm_NoTrim(line) == line

\* line 552: the term of a line.
VocabTerm(line) == Trim(line)

\* line 553: the lines that are skipped.
SkipsTerm(term) == term = <<>> \/ Head(term) = "#"

\* lines 551-557: the lines of one file, inserted in order.
RECURSIVE InsertLines(_, _)
InsertLines(tree, ls) ==
    IF ls = <<>> THEN tree
    ELSE LET term == VocabTerm(Head(ls))
         IN  InsertLines(IF SkipsTerm(term) THEN tree
                         ELSE BTreeInsert(tree, term), Tail(ls))

\* lines 547-558: the files, read in order.
RECURSIVE MergeFiles(_, _)
MergeFiles(tree, texts) ==
    IF texts = <<>> THEN tree
    ELSE MergeFiles(InsertLines(tree, StrLines(Head(texts))), Tail(texts))

\* lines 564-568: each term followed by "\n".
RECURSIVE WriteTerms(_)
WriteTerms(tree) ==
    IF tree = <<>> THEN <<>>
    ELSE Head(tree) \o <<"\n">> \o WriteTerms(Tail(tree))

\* The text written to merged_vocab.txt for the files read, in order.
MergedText(texts) == WriteTerms(MergeFiles(<<>>, texts))

\* lines 530-542: the files read: the library file if wanted and present,
\* then the user's.
VocabInputs(useLibrary) ==
    (IF useLibrary /\ vocabLib.exists THEN <<vocabLib.text>> ELSE <<>>)
    \o (IF vocabUser.given THEN <<vocabUser.file.text>> ELSE <<>>)

\* prepare_vocab_file
PrepareVocabFile(useLibrary) ==
    /\ vocabResult = "none"
    /\ IF vocabUser.given /\ ~vocabUser.file.exists
       THEN /\ vocabResult' = "err"
            /\ UNCHANGED vocabOut
       ELSE IF VocabInputs(useLibrary) = <<>>
            THEN /\ vocabResult' = "no_vocab"
                 /\ UNCHANGED vocabOut
            ELSE /\ vocabResult' = "ok"
                 /\ vocabOut' = File(MergedText(VocabInputs(useLibrary)))
    /\ vocabUseLib' = useLibrary
    /\ UNCHANGED <<vocabLib, vocabUser, vocabPrev>>
    /\ UNCHANGED <<supVars, cliVars, pipeVars, logVars>>

\* prepare_vocab_file run again with --vocab naming the merged file of the
\* first run and --no-library.
PrepareVocabAgain ==
    /\ vocabResult = "ok"
    /\ vocabPrev = NoFile
    /\ vocabPrev' = vocabOut
    /\ vocabOut' = File(MergedText(<<vocabOut.text>>))
    /\ UNCHANGED <<vocabLib, vocabUser, vocabUseLib, vocabResult>>
    /\ UNCHANGED <<supVars, cliVars, pipeVars, logVars>>

(* --------------------------- specification ---------------------------- *)

Slots == {1, 2}
Commands == {"start", "stop", "status"}

InitPidFiles ==
    {NoFile, File(<<>>), File(PidToString(StalePid) \o <<"\n">>),
     File(PidToString(StalePid) \o <<"x">>),
     File(<<"+">> \o PidToString(StalePid))}
InitSockFiles == {NoSocket, Socket(StalePid)}

NoDaemons ==
    /\ serve = [p \in Pids |-> "none"]
    /\ backend = [p \in Pids |-> "none"]
    /\ nextPid = FirstPid

InitFiles ==
    /\ pidfile \in InitPidFiles
    /\ sockfile \in InitSockFiles
    /\ NoDaemons

InitCallers ==
    /\ op = [c \in Slots |-> "none"]
    /\ pc = [c \in Slots |-> "idle"]
    /\ polls = [c \in Slots |-> 0]
    /\ child = [c \in Slots |-> None]
    /\ result = [c \in Slots |-> "none"]
    /\ lastEvent = "none"

\* No worker has been spawned: nothing is planned, written or read.
InitPipesIdle ==
    /\ wplan = [writes |-> <<>>, status |-> "exit_ok"]
    /\ wpos = 0
    /\ pipeOut = <<>>
    /\ pipeErr = <<>>
    /\ outTask = "none"
    /\ errTask = "none"
    /\ wstderr = <<>>

InitRequest ==
    /\ tpc = "idle"
    /\ topt = [noDaemon |-> FALSE, valid |-> TRUE]
    /\ tconn = None
    /\ terr = "none"
    /\ tresult = "none"
    /\ tsource = "none"
    /\ emitted = 0
    /\ dreq = "none"
    /\ dresp = "none"
    /\ daemonExec = 0
    /\ subExec = 0
    /\ wstate = "none"
    /\ wstdout = <<>>
    /\ InitPipesIdle

\* No `daemon logs` command has run.
InitLogsIdle ==
    /\ logLines = None
    /\ logOut = <<>>
    /\ logResult = "none"

\* prepare_vocab_file has not run.
InitVocabIdle ==
    /\ vocabUseLib = TRUE
    /\ vocabOut = NoFile
    /\ vocabPrev = NoFile
    /\ vocabResult = "none"

InitTools ==
    /\ logfile = NoLog
    /\ InitLogsIdle
    /\ vocabLib = NoFile
    /\ vocabUser = NoUserVocab
    /\ InitVocabIdle

\* One administrator issuing supervisor commands one after another.
Init ==
    /\ callers = {1}
    /\ opsLeft = MaxOps
    /\ InitFiles
    /\ InitCallers
    /\ InitRequest
    /\ InitTools

\* Two administrators (or scripts) issuing one command each, concurrently.
InitConc ==
    /\ callers = Slots
    /\ opsLeft = Cardinality(Slots)
    /\ pidfile = NoFile
    /\ sockfile = NoSocket
    /\ NoDaemons
    /\ InitCallers
    /\ InitRequest
    /\ InitTools

\* A daemon started earlier is up: the state daemon_start leaves.
DaemonUp ==
    /\ pidfile = File(PidToString(FirstPid))
    /\ sockfile = Socket(FirstPid)
    /\ serve = [p \in Pids |-> IF p = FirstPid THEN "alive" ELSE "none"]
    /\ backend = [p \in Pids |-> IF p = FirstPid THEN "listening" ELSE "none"]
    /\ nextPid = FirstPid + 1

\* One client request, issued with no daemon, with files left behind by a
\* dead daemon, or with a daemon up.
InitClient ==
    /\ callers = {}
    /\ opsLeft = 0
    /\ InitFiles \/ DaemonUp
    /\ InitCallers
    /\ InitRequest
    /\ InitTools

Next ==
    \/ \E c \in callers, o \in Commands : Invoke(c, o)
    \/ \E c \in callers : StartProbe(c)
    \/ \E c \in callers : StartRemoveSocket(c)
    \/ \E c \in callers : StartSpawn(c)
    \/ \E c \in callers : StartWritePid(c)
    \/ \E c \in callers : StartPoll(c)
    \/ \E c \in callers : StopSignal(c)
    \/ \E c \in callers : StopCleanup(c)
    \/ \E c \in callers : Status(c)
    \/ \E c \in callers : Return(c)
    \/ \E d \in Pids : ServeLaunch(d)
    \/ \E d \in Pids : ServeExit(d)
    \/ \E d \in Pids : BackendBind(d)
    \/ \E d \in Pids : BackendExit(d)
    \/ \E d \in Pids : ExternalKill(d)

Spec == Init /\ [][Next]_vars

\* Concurrent commands over daemons that start up and keep running.
NextConc ==
    \/ \E c \in callers, o \in Commands : Invoke(c, o)
    \/ \E c \in callers : StartProbe(c)
    \/ \E c \in callers : StartRemoveSocket(c)
    \/ \E c \in callers : StartSpawn(c)
    \/ \E c \in callers : StartWritePid(c)
    \/ \E c \in callers : StartPoll(c)
    \/ \E c \in callers : StopSignal(c)
    \/ \E c \in callers : StopCleanup(c)
    \/ \E c \in callers : Status(c)
    \/ \E c \in callers : Return(c)
    \/ \E d \in Pids : ServeLaunch(d)
    \/ \E d \in Pids : BackendBind(d)

SpecConc == InitConc /\ [][NextConc]_vars

\* The steps of the run_transcribe process itself.
ClientStep ==
    \/ TValidate
    \/ TDispatch
    \/ TryConnect
    \/ TryWrite
    \/ TryRead
    \/ SubSpawn
    \/ SubWait
    \/ SubDecide

NextClient ==
    \/ \E nd \in BOOLEAN, v \in BOOLEAN : TInvoke(nd, v)
    \/ TValidate
    \/ TDispatch
    \/ TryConnect
    \/ TryWrite
    \/ TryRead
    \/ SubSpawn
    \/ SubWait
    \/ SubDecide
    \/ \E kind \in ResponseKinds : DaemonRespond(kind)
    \/ DaemonReadRequest
    \/ DaemonProcess
    \/ \E st \in {"exit_ok", "exit_fail"}, out \in StdoutChoices :
          WorkerExit(st, out)
    \/ \E d \in Pids : BackendExit(d)
    \/ \E d \in Pids : ServeExit(d)
    \/ \E d \in Pids : ExternalKill(d)

SpecClient == InitClient /\ [][NextClient]_vars

\* The supervisor command's process is scheduled: its steps are taken.
StartStep(c) ==
    \/ StartProbe(c)
    \/ StartRemoveSocket(c)
    \/ StartSpawn(c)
    \/ StartWritePid(c)
    \/ StartPoll(c)

\* One administrator issuing two commands one after the other.
InitPair ==
    /\ callers = {1}
    /\ opsLeft = Cardinality(Slots)
    /\ InitFiles
    /\ InitCallers
    /\ InitRequest
    /\ InitTools

FairSpec ==
    InitPair /\ [][Next]_vars /\ \A c \in Slots : WF_vars(StartStep(c))

\* The run_transcribe process is scheduled; nothing makes the daemon answer
\* or the worker exit.
FairSpecClient == InitClient /\ [][NextClient]_vars /\ WF_vars(ClientStep)

\* `daemon logs` run once over any log file, with any --lines argument.
InitLogs ==
    /\ callers = {}
    /\ opsLeft = 0
    /\ pidfile = NoFile
    /\ sockfile = NoSocket
    /\ NoDaemons
    /\ InitCallers
    /\ InitRequest
    /\ logfile \in {NoLog} \cup {Log(t) : t \in LogTexts}
    /\ InitLogsIdle
    /\ vocabLib = NoFile
    /\ vocabUser = NoUserVocab
    /\ InitVocabIdle

NextLogs == \E n \in 0..MaxTail : DaemonLogs(n)

SpecLogs == InitLogs /\ [][NextLogs]_vars

\* A --no-daemon request about to spawn its worker, for any worker: any
\* lines on the two streams in any order, and either exit status.
InitPipes ==
    /\ callers = {}
    /\ opsLeft = 0
    /\ pidfile = NoFile
    /\ sockfile = NoSocket
    /\ NoDaemons
    /\ InitCallers
    /\ InitTools
    /\ tpc = "sub_spawn"
    /\ topt = [noDaemon |-> TRUE, valid |-> TRUE]
    /\ tconn = None
    /\ terr = "none"
    /\ tresult = "none"
    /\ tsource = "none"
    /\ emitted = 0
    /\ dreq = "none"
    /\ dresp = "none"
    /\ daemonExec = 0
    /\ subExec = 0
    /\ wstate = "none"
    /\ wstdout = <<>>
    /\ wplan \in [writes : WritePlans, status : ExitStatuses]
    /\ wpos = 0
    /\ pipeOut = <<>>
    /\ pipeErr = <<>>
    /\ outTask = "none"
    /\ errTask = "none"
    /\ wstderr = <<>>

NextPipes ==
    \/ SubSpawn
    \/ SpawnReaders
    \/ WorkerWrite
    \/ WorkerFinish
    \/ StdoutTask
    \/ StderrTask
    \/ WaitChild
    \/ JoinStdout
    \/ JoinStderr
    \/ SubDecide

\* The worker, the two reader tasks and run_transcribe itself are all
\* scheduled: the worker by the system, the tasks by the runtime.
FairSpecPipes ==
    /\ InitPipes
    /\ [][NextPipes]_vars
    /\ WF_vars(SubSpawn) /\ WF_vars(SpawnReaders)
    /\ WF_vars(WorkerWrite) /\ WF_vars(WorkerFinish)
    /\ WF_vars(StdoutTask) /\ WF_vars(StderrTask)
    /\ WF_vars(WaitChild) /\ WF_vars(JoinStdout) /\ WF_vars(JoinStderr)
    /\ WF_vars(SubDecide)

\* prepare_vocab_file run over any library file and any --vocab file.
InitVocab ==
    /\ callers = {}
    /\ opsLeft = 0
    /\ pidfile = NoFile
    /\ sockfile = NoSocket
    /\ NoDaemons
    /\ InitCallers
    /\ InitRequest
    /\ logfile = NoLog
    /\ InitLogsIdle
    /\ vocabLib \in VocabFiles
    /\ vocabUser \in {NoUserVocab} \cup {UserVocab(f) : f \in VocabFiles}
    /\ InitVocabIdle

NextVocab ==
    \/ \E useLibrary \in BOOLEAN : PrepareVocabFile(useLibrary)
    \/ PrepareVocabAgain

SpecVocab == InitVocab /\ [][NextVocab]_vars

(* ------------------------------ claims -------------------------------- *)

\* The PID file records a pid, and a process with that pid exists.
PidRecordedAlive ==
    /\ pidfile.exists
    /\ \E p \in Pids : serve[p] = "alive" /\ ParseU32(Trim(pidfile.text)) = p

\* Slot c takes a step of its command.
Moves(c) == pc'[c] # pc[c] \/ polls'[c] # polls[c]

\* C1: a daemon_start invoked while the recorded pid passes the liveness
\* probe spawns nothing, leaves the PID file and the socket file as they
\* are, reports "already running" and returns success.
C1_StartIdempotent ==
    [][\A c \in Slots :
          (pc[c] = "start_probe" /\ Moves(c) /\ PidRecordedAlive)
             => /\ result'[c] = "already_running"
                /\ pc'[c] = "done"
                /\ UNCHANGED <<pidfile, sockfile, serve, backend, nextPid>>]_vars

\* A second start has returned "already running" while the first daemon is
\* alive and is the only process spawned.
C1_Witness ==
    /\ result[1] = "already_running"
    /\ pc[1] = "done"
    /\ serve[FirstPid] = "alive"
    /\ nextPid = FirstPid + 1

\* C2: whenever daemon_stop returns while no daemon is alive (no PID file,
\* or one naming a process that is gone), it returns success and neither the
\* PID file nor the socket file exists.
C2_StopNotRunningSucceeds ==
    [][\A c \in Slots :
          (op[c] = "stop" /\ pc[c] # "done" /\ pc'[c] = "done"
             /\ ~PidRecordedAlive)
             => /\ result'[c] \in {"stopped", "not_running"}
                /\ ~pidfile'.exists
                /\ ~sockfile'.exists]_vars

\* C3: whenever daemon_stop returns, whatever its outcome, the PID file and
\* the socket file are both absent.
C3_StopAlwaysCleans ==
    [][\A c \in Slots :
          (op[c] = "stop" /\ pc[c] # "done" /\ pc'[c] = "done")
             => ~pidfile'.exists /\ ~sockfile'.exists]_vars

\* C4: at most one transcription is performed for a client request: the
\* daemon and the worker subprocess never both execute it.
C4_AtMostOneTranscription == daemonExec + subExec <= 1

SubprocessStages == {"sub_spawn", "sub_wait", "sub_decide", "done"}
DaemonStages == {"d_connect", "d_write", "d_read"}
SubprocessResults == {"ok", "err_spawn", "err_worker", "err_nojson", "err_parse"}

\* C5: every failure of the daemon attempt is absorbed: the attempt ends
\* either with the daemon's response emitted or in the subprocess path with
\* the error kept aside, and from then on the result reported is one the
\* subprocess path produced, never the daemon's.
C5_DaemonFailureAbsorbed ==
    /\ [](terr # "none" =>
            /\ tpc \in SubprocessStages
            /\ tsource # "daemon"
            /\ tpc = "done" =>
                  /\ tresult \in SubprocessResults
                  /\ tresult = "ok" => tsource = "subprocess"
                  /\ tresult # "err_spawn" => subExec = 1)
    /\ [][(tpc \in DaemonStages /\ tpc' \notin DaemonStages)
             => \/ tpc' = "done" /\ tresult' = "ok" /\ tsource' = "daemon"
                   /\ dresp = "valid" /\ terr' = "none"
                \/ tpc' = "sub_spawn" /\ terr' # "none"
                   /\ tresult' = "none"]_vars

\* The daemon took the request and never answered in time; the subprocess
\* produced the response.
C5_Witness ==
    /\ terr = "timeout"
    /\ tpc = "done"
    /\ tresult = "ok"
    /\ tsource = "subprocess"

\* C6: daemon_status reports running (and succeeds) exactly when a pid is
\* recorded and the probe of it succeeds, reports not running (and fails)
\* otherwise, and leaves the PID file and the socket file as they are.
C6_StatusIffProbe ==
    [][\A c \in Slots :
          (pc[c] = "status_probe" /\ Moves(c))
             => /\ pc'[c] = "done"
                /\ result'[c] = IF PidRecordedAlive THEN "running"
                                                    ELSE "not_running"
                /\ UNCHANGED <<pidfile, sockfile>>]_vars

\* Status has reported not running for a PID file that names a dead process.
C6_Witness ==
    /\ op[1] = "status"
    /\ result[1] = "not_running"
    /\ ReadPid(pidfile) # None

LiveDaemons == {p \in Pids : serve[p] = "alive"}

\* C8: under any interleaving of supervisor commands, at most one daemon
\* process spawned by start is alive, and once no command is in progress
\* every live daemon is the one the PID file records.
C8_SingleDaemon ==
    /\ Cardinality(LiveDaemons) <= 1
    /\ (\A c \in callers : pc[c] \in {"idle", "done"})
          => \A p \in LiveDaemons : ReadPid(pidfile) = p

StartPcs == {"start_probe", "start_rmsock", "start_spawn", "start_writepid",
             "start_poll"}

\* C9: daemon_start terminates: its loop makes at most 240 passes, a pass
\* that sees the socket file returns success, the timeout error is returned
\* only by the 240th pass not seeing it, and every start reaches its return.
C9_StartTerminates ==
    /\ [](\A c \in Slots : polls[c] < PollLimit)
    /\ [][\A c \in Slots :
             (pc[c] = "start_poll" /\ Moves(c))
                => /\ sockfile.exists
                      => result'[c] = "started" /\ pc'[c] = "done"
                   /\ ~sockfile.exists /\ polls[c] + 1 < PollLimit
                      => pc'[c] = "start_poll" /\ polls'[c] = polls[c] + 1
                   /\ ~sockfile.exists /\ polls[c] + 1 = PollLimit
                      => result'[c] = "start_timeout" /\ pc'[c] = "done"]_vars
    /\ \A c \in Slots : (pc[c] \in StartPcs) ~> (pc[c] = "done")

\* A start has timed out.
C9_Witness == result[1] = "start_timeout" /\ pc[1] = "done"

\* C10: a client request never hangs: every run_transcribe that was entered
\* eventually returns.
C10_RequestReturns == (tpc # "idle") ~> (tpc = "done")

\* C11: a run_transcribe execution that returns an error has printed nothing
\* on stdout, and one that succeeds has printed exactly one response; while
\* the request is still in progress nothing has been printed.
C11_StdoutOnlyOnSuccess ==
    /\ emitted <= 1
    /\ tresult # "ok" => emitted = 0
    /\ tresult = "ok" => emitted = 1 /\ tpc = "done"

\* The worker printed a JSON line and exited non-zero: an error, no output.
C11_Witness ==
    /\ tpc = "done"
    /\ tresult = "err_worker"
    /\ LastJsonLine(wstdout) # 0
    /\ wstdout[LastJsonLine(wstdout)] = "json"
    /\ emitted = 0

WorkerExited == wstate \in {"exit_ok", "exit_fail"}
\* Line i of the worker's stdout starts with '{'.
LooksJson(i) == wstdout[i] \in {"json", "brace"}

\* C12: on the subprocess path nothing is decided while the worker runs;
\* after its exit a non-zero status gives the worker-failure error whatever
\* was printed, a zero status with no line starting with '{' gives the
\* no-structured-output error, and a zero status otherwise gives what
\* parsing the last such line gives: the response, or the parse error.
C12_DecidedAfterExit ==
    /\ tpc \in {"sub_spawn", "sub_wait"} => tresult = "none"
    /\ tpc \in {"sub_decide", "done"} /\ subExec > 0 => WorkerExited
    /\ tpc = "done" /\ subExec > 0 =>
          /\ wstate = "exit_fail" => tresult = "err_worker"
          /\ wstate = "exit_ok" /\ (\A i \in 1..Len(wstdout) : ~LooksJson(i))
                => tresult = "err_nojson"
          /\ \A k \in 1..Len(wstdout) :
                wstate = "exit_ok" /\ LooksJson(k)
                /\ (\A j \in (k + 1)..Len(wstdout) : ~LooksJson(j))
                => IF wstdout[k] = "json"
                   THEN tresult = "ok" /\ tsource = "subprocess"
                   ELSE tresult = "err_parse"

\* The worker exited 0; its last line starting with '{' is a response and an
\* earlier such line is not one.
C12_Witness ==
    /\ tpc = "done"
    /\ wstate = "exit_ok"
    /\ wstdout = <<"brace", "json">>
    /\ tresult = "ok"

\* C12 as worded: exit status 0 with a line that looks like a JSON object
\* always yields a response.
C12_ZeroExitYieldsResponse ==
    tpc = "done" /\ wstate = "exit_ok"
    /\ (\E i \in 1..Len(wstdout) : LooksJson(i)) => tresult = "ok"

\* C13: a request made with --no-daemon never connects to the daemon socket
\* and never sends the daemon anything, so the daemon performs nothing for
\* it; whatever it returns comes from the subprocess path.
C13_NoDaemonNoContact ==
    tpc # "idle" /\ topt.noDaemon =>
        /\ tpc \notin DaemonStages
        /\ tconn = None
        /\ terr = "none"
        /\ dreq = "none"
        /\ dresp = "none"
        /\ daemonExec = 0
        /\ tresult = "ok" => tsource = "subprocess"

\* A --no-daemon request succeeded while a daemon was up and listening.
C13_Witness ==
    /\ tpc = "done"
    /\ topt.noDaemon
    /\ DaemonListening
    /\ tresult = "ok"
    /\ subExec = 1

\* The text is a decimal number that fits a u32, as Rust reads one: after
\* trimming, an optional '+' and one or more digits, at most u32::MAX.
IsDecimalPid(t) ==
    LET s == Trim(t)
        b == IF s # <<>> /\ Head(s) = "+" THEN Tail(s) ELSE s
    IN  /\ b # <<>>
        /\ \A i \in 1..Len(b) : IsDigit(b[i])
        /\ ~OverflowsU32(b)

\* No pid is recorded: the PID file is absent, or is not a decimal pid.
NoPidRecorded == ~pidfile.exists \/ ~IsDecimalPid(pidfile.text)

LastSpawnedAlive == nextPid > FirstPid /\ serve[nextPid - 1] = "alive"

\* C19: while daemon_start polls, the PID file already holds the pid of the
\* process it spawned; the pass that gives up with the timeout error leaves
\* the PID file, the socket file and the processes as they are; and after a
\* timed-out start (the last thing that happened), as long as the process it
\* spawned is alive, start reports "already running" and spawns nothing,
\* and status reports running.
C19_TimeoutKeepsPid ==
    /\ [](\A c \in Slots :
             pc[c] = "start_poll" => pidfile = File(PidToString(child[c])))
    /\ [][\A c \in Slots :
             /\ (pc[c] = "start_poll" /\ result'[c] = "start_timeout")
                   => UNCHANGED <<pidfile, sockfile, serve, backend>>
             /\ (pc[c] = "start_probe" /\ Moves(c) /\ lastEvent = "other"
                 /\ LastSpawnedAlive)
                   => /\ result'[c] = "already_running"
                      /\ pc'[c] = "done"
                      /\ UNCHANGED <<pidfile, sockfile, serve, nextPid>>
             /\ (pc[c] = "status_probe" /\ Moves(c) /\ lastEvent = "other"
                 /\ LastSpawnedAlive)
                   => result'[c] = "running"]_vars

\* After a start that timed out, status has reported running although there
\* is no socket file.
C19_Witness ==
    /\ op[1] = "status"
    /\ pc[1] = "done"
    /\ result[1] = "running"
    /\ lastEvent = "other"
    /\ ~sockfile.exists

\* The backend processes that are running, launched by some `daemon serve`.
LiveBackends == {p \in Pids : backend[p] \in {"init", "listening"}}

\* C20: once a stop has returned "stopped", neither a `daemon serve`
\* process nor a backend process is alive; and there are never two live
\* backend processes.
C20_StopTerminatesAll ==
    /\ \A c \in Slots :
          (op[c] = "stop" /\ pc[c] = "done" /\ result[c] = "stopped")
             => LiveDaemons = {} /\ LiveBackends = {}
    /\ Cardinality(LiveBackends) <= 1

\* C17: the pass of daemon_start's loop that reports "started" sees a socket
\* file bound by the backend of the daemon this start spawned, never one
\* that was there before the spawn or that another process bound.
C17_SocketFromOwnDaemon ==
    [][\A c \in Slots :
          (pc[c] = "start_poll" /\ result'[c] = "started")
             => sockfile.exists /\ sockfile.owner = child[c]]_vars

\* C14: `daemon logs --lines N` on a readable log of L lines prints its last
\* min(N, L) lines, in the file's order, and nothing else; on an unreadable
\* log it fails and prints nothing.
C14_LogsTail ==
    /\ logResult = "none" => logOut = <<>>
    /\ logResult = "err" <=> (logLines # None /\ ~logfile.readable)
    /\ logResult = "err" => logOut = <<>>
    /\ logResult = "ok" =>
          LET all == StrLines(logfile.text)
              L == Len(all)
              k == IF logLines <= L THEN logLines ELSE L
          IN  /\ Len(logOut) = k
              /\ \A i \in 1..k : logOut[i] = all[L - k + i]

\* The log has three different lines and the last two were asked for.
C14_Witness ==
    /\ logResult = "ok"
    /\ logLines = 2
    /\ Len(StrLines(logfile.text)) = 3
    /\ StrLines(logfile.text)[1] # StrLines(logfile.text)[3]
    /\ logOut = SubSeq(StrLines(logfile.text), 2, 3)

\* The files the run of prepare_vocab_file read, in the order it read them.
VocabRead == VocabInputs(vocabUseLib)

\* The merged file the first run wrote.
VocabFirst == IF vocabPrev.exists THEN vocabPrev ELSE vocabOut

\* The lines of the files read.
VocabRawLines ==
    UNION {{StrLines(VocabRead[f])[i] : i \in 1..Len(StrLines(VocabRead[f]))}
              : f \in 1..Len(VocabRead)}

\* The terms of the files read: their lines trimmed, but for the empty ones
\* and those starting with '#'.
VocabExpected ==
    {t \in {Trim(l) : l \in VocabRawLines} : t # <<>> /\ Head(t) # "#"}

Reversed(q) == [i \in 1..Len(q) |-> q[Len(q) - i + 1]]

\* C15: the merged vocabulary is the same with the files read in the other
\* order and with every file read twice; its lines are the distinct trimmed
\* terms of the files, each once, in ascending byte order (so "A" and "a"
\* are both kept), none of them blank or starting with '#'; and merging the
\* merged file again writes the same text.
C15_VocabMerge ==
    /\ vocabResult # "ok" => ~vocabOut.exists
    /\ vocabResult = "ok" =>
          LET out == StrLines(VocabFirst.text)
          IN  /\ VocabFirst.exists
              /\ MergedText(Reversed(VocabRead)) = VocabFirst.text
              /\ MergedText(VocabRead \o VocabRead) = VocabFirst.text
              /\ {out[i] : i \in 1..Len(out)} = VocabExpected
              /\ Len(out) = Cardinality(VocabExpected)
              /\ \A i, j \in 1..Len(out) : i < j => StrLess(out[i], out[j])
              /\ \A i \in 1..Len(out) :
                    out[i] = Trim(out[i]) /\ out[i] # <<>>
                    /\ Head(out[i]) # "#"
              /\ vocabPrev.exists => vocabOut = vocabPrev

\* Two files were merged: one had a term with spaces around it and "A", the
\* other a comment and the same term again; the merged file was merged again.
C15_Witness ==
    /\ vocabResult = "ok"
    /\ vocabPrev.exists
    /\ Len(VocabRead) = 2
    /\ StrLines(vocabOut.text) = <<<<"A">>, <<"a">>>>
    /\ <<" ", "a", " ">> \in VocabRawLines
    /\ <<"#", "a">> \in VocabRawLines
    /\ <<"a">> \in VocabRawLines

\* The worker has exited and every line it wrote has been collected.
AllCollected ==
    /\ wstate = wplan.status
    /\ wpos = Len(wplan.writes)
    /\ wstdout = StreamLines(wplan.writes, "out")
    /\ wstderr = StreamLines(wplan.writes, "err")
    /\ pipeOut = <<>> /\ pipeErr = <<>>

\* C16: whatever the worker writes to its two pipes, in whatever order and
\* however small the pipes, the joins are reached only after its exit, the
\* outcome is decided with every line of both streams collected, and once
\* the worker is spawned the request always comes to its decision: the worker
\* never stays blocked on a full pipe.
C16_NoPipeDeadlock ==
    /\ [](tpc \in {"sub_join_out", "sub_join_err"} => wstate \in ExitStatuses)
    /\ [](tpc \in {"sub_decide", "done"} /\ subExec > 0 => AllCollected)
    /\ (tpc = "sub_wait") ~> (wstate \in ExitStatuses)
    /\ (tpc = "sub_wait") ~> (tpc = "done")

\* The worker wrote more lines to stderr than the pipe holds, then a line to
\* stdout, and the request succeeded with all of them collected.
C16_Witness ==
    /\ tpc = "done"
    /\ tresult = "ok"
    /\ Len(wstderr) > PipeCap
    /\ wplan.writes[1][1] = "err"
    /\ wplan.writes[Len(wplan.writes)][1] = "out"
    /\ AllCollected

====
